---- MODULE Spec2Model ----
(***************************************************************************)
(* Model of lib/SILOptimizer/Mandatory/MoveOnlyChecker.cpp: the per-       *)
(* function driver MoveOnlyCheckerPass::run and the two helpers            *)
(* MoveOnlyChecker::checkObjects / MoveOnlyChecker::checkAddresses.        *)
(*                                                                         *)
(* A function body is a sequence of blocks, a block a sequence of          *)
(* instructions, an instruction one of the kinds below.  The candidate     *)
(* searches, the two checking engines, the missed-copy sweep and the       *)
(* copy cleanup live in other files; they are modelled by the contract     *)
(* the design document gives them, as deterministic functions of the body. *)
(***************************************************************************)
EXTENDS Integers, Sequences, FiniteSets, TLC

(* ---- bounds of the model ---- *)
MaxInstrs == 2
MaxBlocks == 2
MaxRefCount == 1

(* ---- instruction kinds ---- *)
\* an implicit copy of a move-only value that no introduction marker covers
Copy == "copy_value"
\* the explicit form cleanup rewrites an implicit copy into
ExplicitCopy == "explicit_copy_value"
Unreachable == "unreachable"
Return == "return"
\* object-class introduction markers: all uses legal / an illegal use /
\* unanalyzable / resolved and erased by the search itself / legal, but the
\* engine rewrites a redundant duplication into an explicit operation
ObjOk == "mark_obj"
ObjIllegal == "mark_obj_illegal_use"
ObjMalformed == "mark_obj_unanalyzable"
ObjTrivial == "mark_obj_trivial"
ObjRewrite == "mark_obj_redundant"
\* address-class introduction markers
AddrOk == "mark_addr"
AddrIllegal == "mark_addr_illegal_use"
AddrMalformed == "mark_addr_unanalyzable"
AddrRewrite == "mark_addr_redundant"

ObjMarkers == {ObjOk, ObjIllegal, ObjMalformed, ObjTrivial, ObjRewrite}
AddrMarkers == {AddrOk, AddrIllegal, AddrMalformed, AddrRewrite}
InputKinds == {Copy} \cup ObjMarkers \cup AddrMarkers
Terminators == {Return, Unreachable}

(* ---- linkage ---- *)
Linkages == {"Public", "Hidden", "Shared", "Private"}
InputLinkages == {"Public", "Hidden", "Shared"}

(* ---- semantic attributes ---- *)
MOVEONLY_DELETE_IF_UNUSED == "semantics.moveonly.delete_if_unused"
NO_MOVEONLY_DIAGNOSTICS == "semantics.no.moveonly.diagnostics"
Attrs == {MOVEONLY_DELETE_IF_UNUSED, NO_MOVEONLY_DIAGNOSTICS}

VARIABLES
    fn,             \* the SILFunction: blocks, linkage, refCount, attrs, deserialized
    ctx,            \* ASTContext / SILModule: move-only feature, stage, whole-module
    pc,             \* position of run() within the current invocation
    diags,          \* diagnostics recorded by this invocation's DiagnosticEmitter
    madeChange,     \* MoveOnlyChecker::madeChange
    worklist,       \* moveIntroducersToProcess of the current class
    invalidations,  \* invalidateAnalysis calls of this invocation, in order
    steps,          \* the steps this invocation has run, in order
    terminal,       \* how this invocation ended ("none" while it runs)
    fn0,            \* the function as it was when this invocation started
    other           \* the invocation a second worker has in progress, while
                    \* that worker is not the one taking steps

vars == <<fn, ctx, pc, diags, madeChange, worklist, invalidations, steps,
          terminal, fn0, other>>

(* ---- helpers over bodies ---- *)
SeqsUpTo(S, n) == UNION {[1..k -> S] : k \in 0..n}

RECURSIVE Flatten(_)
Flatten(blocks) ==
    IF blocks = <<>> THEN <<>>
    ELSE Head(blocks).insts \o Flatten(Tail(blocks))

RECURSIVE FilterOut(_, _)
FilterOut(insts, drop) ==
    IF insts = <<>> THEN <<>>
    ELSE IF Head(insts) \in drop THEN FilterOut(Tail(insts), drop)
         ELSE <<Head(insts)>> \o FilterOut(Tail(insts), drop)

\* all instruction positions <<block, index>> in traversal order
RECURSIVE PositionsFrom(_, _, _)
PositionsFrom(blocks, b, i) ==
    IF b > Len(blocks) THEN <<>>
    ELSE IF i > Len(blocks[b].insts) THEN PositionsFrom(blocks, b + 1, 1)
         ELSE <<(<<b, i>>)>> \o PositionsFrom(blocks, b, i + 1)

Positions(blocks) == PositionsFrom(blocks, 1, 1)

At(blocks, p) == blocks[p[1]].insts[p[2]]

\* the positions of ps, in order, that hold an instruction of one of kinds
SelectPos(blocks, ps, kinds) ==
    SelectSeq(ps, LAMBDA p : At(blocks, p) \in kinds)

Diag(msg, p) == [msg |-> msg, at |-> p]

\* one diagnostic per position of ps, in order
DiagsFor(msg, ps) == [k \in 1..Len(ps) |-> Diag(msg, ps[k])]

HasImplicitCopy(blocks) ==
    \E p \in 1..Len(Flatten(blocks)) : Flatten(blocks)[p] = Copy

(* ---- the function and its context ---- *)
\* SILLinkage.h: is a function of this linkage visible outside the unit
isPossiblyUsedExternally(linkage, wholeModule) ==
    CASE linkage = "Public" -> TRUE
      [] linkage = "Hidden" -> ~wholeModule
      [] OTHER -> FALSE

hasSemanticsAttr(f, attr) == attr \in f.attrs

\* bodies the model starts from: the entry block holds up to MaxInstrs
\* instructions and a return, every further block a terminator
EntryBlocks == {[id |-> 1, insts |-> s \o <<Return>>] : s \in SeqsUpTo(InputKinds, MaxInstrs)}

Bodies ==
    {<<e>> \o [k \in 1..n |-> [id |-> k + 1, insts |-> <<Unreachable>>]] :
        e \in EntryBlocks, n \in 0..(MaxBlocks - 1)}

Functions ==
    [blocks : Bodies, linkage : InputLinkages, refCount : 0..MaxRefCount,
     attrs : SUBSET Attrs, deserialized : BOOLEAN]

Contexts == [moveOnly : BOOLEAN, stage : {"Raw", "Canonical"}, wholeModule : BOOLEAN]

(* ---- collaborators of the driver ---- *)
\* DiagnosticEmitter::getDiagnosticCount / emittedDiagnostic
getDiagnosticCount(ds) == Len(ds)
emittedDiagnostic(ds) == getDiagnosticCount(ds) > 0

\* searchForCandidateObjectMarkUnresolvedNonCopyableValueInsts: one scan;
\* an unanalyzable marker gets a diagnostic and stays out of the worklist.
\* checkObjects ORs the returned flag into madeChange (line 98), so the flag
\* is a change flag: it is set when the search erased a marker it resolved
\* itself.  Whether a diagnostic was emitted is computed by the caller from
\* the diagnostic count (lines 97, 104) and only logged.
ObjSearchBlocks(blocks) ==
    [b \in 1..Len(blocks) |->
        [id |-> blocks[b].id, insts |-> FilterOut(blocks[b].insts, {ObjTrivial})]]
ObjSearchChanged(blocks) == ObjSearchBlocks(blocks) # blocks
ObjSearchDiags(blocks) ==
    DiagsFor("unanalyzable_marker",
             SelectPos(ObjSearchBlocks(blocks), Positions(ObjSearchBlocks(blocks)), {ObjMalformed}))
ObjSearchWorklist(blocks) ==
    SelectPos(ObjSearchBlocks(blocks), Positions(ObjSearchBlocks(blocks)),
              {ObjOk, ObjIllegal, ObjRewrite})

\* searchForCandidateAddressMarkUnresolvedNonCopyableValueInsts: one scan,
\* no change flag is returned to the driver and the body is left alone
AddrSearchDiags(blocks) ==
    DiagsFor("unanalyzable_marker", SelectPos(blocks, Positions(blocks), {AddrMalformed}))
AddrSearchWorklist(blocks) ==
    SelectPos(blocks, Positions(blocks), {AddrOk, AddrIllegal, AddrRewrite})

\* MoveOnlyObjectChecker::check / MoveOnlyAddressChecker::check: every marker
\* of the worklist is proved legal or gets a diagnostic; a redundant
\* duplication is rewritten, which is the returned change flag
CheckerDiags(blocks, wl, illegal) ==
    DiagsFor("illegal_use", SelectPos(blocks, wl, {illegal}))
CheckerBlocks(blocks, wl, rewrite, ok) ==
    [b \in 1..Len(blocks) |->
        [id |-> blocks[b].id,
         insts |-> [i \in 1..Len(blocks[b].insts) |->
            IF blocks[b].insts[i] = rewrite /\ (\E k \in 1..Len(wl) : wl[k] = <<b, i>>)
            THEN ok ELSE blocks[b].insts[i]]]]
CheckerChanged(blocks, wl, rewrite, ok) == CheckerBlocks(blocks, wl, rewrite, ok) # blocks

\* emitCheckerMissedCopyOfNonCopyableTypeErrors: an error for every implicit
\* copy of a move-only value still in the body
MissedCopyDiags(blocks) ==
    DiagsFor("missed_copy", SelectPos(blocks, Positions(blocks), {Copy}))

\* cleanupNonCopyableCopiesAfterEmittingDiagnostic: every implicit copy
\* becomes the explicit form; returns whether it rewrote anything
CleanupRewrite(k) == IF k = Copy THEN ExplicitCopy ELSE k
CleanupBlocks(blocks) ==
    [b \in 1..Len(blocks) |->
        [id |-> blocks[b].id,
         insts |-> [i \in 1..Len(blocks[b].insts) |-> CleanupRewrite(blocks[b].insts[i])]]]
CleanupChanged(blocks) == CleanupBlocks(blocks) # blocks

(* ---- initial state ---- *)
\* a single worker: no second invocation is in progress
NoOther == [pc |-> "absent"]

Init ==
    /\ fn \in Functions
    /\ ctx \in Contexts
    /\ pc = "entry"
    /\ diags = <<>>
    /\ madeChange = FALSE
    /\ worklist = <<>>
    /\ invalidations = <<>>
    /\ steps = <<>>
    /\ terminal = "none"
    /\ fn0 = fn
    /\ other = NoOther

(* ---- MoveOnlyCheckerPass::run, step by step ---- *)
Finish(t) ==
    /\ pc' = "done"
    /\ terminal' = t

\* lines 151-157: the two early returns of the entry gate
GateSkips_featureOnly(c, f) == ~c.moveOnly
GateSkips_deserializedOnly(c, f) == f.deserialized
GateSkips(c, f) == ~c.moveOnly \/ f.deserialized

Gate ==
    /\ pc = "entry"
    /\ GateSkips(ctx, fn)
    /\ Finish("gated")
    /\ UNCHANGED <<fn, ctx, diags, madeChange, worklist, invalidations, steps, fn0, other>>

\* lines 159-160: the assertion on the SIL stage fires (asserts compiled in)
StageAssertFails_beforeGate ==
    /\ pc = "entry"
    /\ ctx.stage # "Raw"
    /\ pc' = "aborted"
    /\ terminal' = "aborted"
    /\ UNCHANGED <<fn, ctx, diags, madeChange, worklist, invalidations, steps, fn0, other>>

StageAssertFails ==
    /\ pc = "entry"
    /\ ~GateSkips(ctx, fn)
    /\ ctx.stage # "Raw"
    /\ pc' = "aborted"
    /\ terminal' = "aborted"
    /\ UNCHANGED <<fn, ctx, diags, madeChange, worklist, invalidations, steps, fn0, other>>

\* lines 159-160: the stage is Raw, or the assertion is compiled out
PassGate ==
    /\ pc = "entry"
    /\ ~GateSkips(ctx, fn)
    /\ pc' = "directive_delete"
    /\ UNCHANGED <<fn, ctx, diags, madeChange, worklist, invalidations, steps, terminal, fn0, other>>

\* lines 164-167: the delete-if-unused directive and the unused test
IsUnused_ignoresRefCount(f, c) ==
    ~isPossiblyUsedExternally(f.linkage, c.wholeModule)
IsUnused(f, c) ==
    f.refCount = 0 /\ ~isPossiblyUsedExternally(f.linkage, c.wholeModule)

TakesDeletePath(f, c) ==
    hasSemanticsAttr(f, MOVEONLY_DELETE_IF_UNUSED) /\ IsUnused(f, c)

DeleteDirective ==
    /\ pc = "directive_delete"
    /\ IF TakesDeletePath(fn, ctx)
       THEN /\ pc' = "erase_blocks"
            /\ steps' = Append(steps, "delete_body")
       ELSE /\ pc' = "directive_nodiag"
            /\ steps' = steps
    /\ UNCHANGED <<fn, ctx, diags, madeChange, worklist, invalidations, terminal, fn0, other>>

\* lines 173-177: one iteration of the loop erasing the non-entry blocks
EraseFromParent_erasesNothing(blocks) == blocks
EraseFromParent(blocks) == <<Head(blocks)>> \o Tail(Tail(blocks))

EraseBlock ==
    /\ pc = "erase_blocks"
    /\ Len(fn.blocks) > 1
    /\ fn' = [fn EXCEPT !.blocks = EraseFromParent(fn.blocks)]
    /\ UNCHANGED <<ctx, pc, diags, madeChange, worklist, invalidations, steps, terminal, fn0, other>>

\* lines 180-185: the entry block keeps only a new unreachable
RewriteEntryBlock_keepsInsts(blocks) ==
    <<[id |-> Head(blocks).id, insts |-> Head(blocks).insts \o <<Unreachable>>]>> \o Tail(blocks)
RewriteEntryBlock(blocks) ==
    <<[id |-> Head(blocks).id, insts |-> <<Unreachable>>]>> \o Tail(blocks)

\* lines 190-192: shared linkage becomes private
DowngradeLinkage_always(l) == "Private"
DowngradeLinkage(l) == IF l = "Shared" THEN "Private" ELSE l

\* line 194: the deleted body is always reported
InvalidateFunctionBody_dropped(inv) == inv
InvalidateFunctionBody(inv) == Append(inv, "FunctionBody")

\* lines 180-195: after the loop
DeleteBody ==
    /\ pc = "erase_blocks"
    /\ Len(fn.blocks) = 1
    /\ fn' = [fn EXCEPT !.blocks = RewriteEntryBlock(fn.blocks),
                        !.linkage = DowngradeLinkage(fn.linkage)]
    /\ invalidations' = InvalidateFunctionBody(invalidations)
    /\ Finish("deleted")
    /\ UNCHANGED <<ctx, diags, madeChange, worklist, steps, fn0, other>>

\* lines 214-215 and 241-242: invalidateAnalysis only when something changed
NotifyIf_always(changed, inv) == Append(inv, "Instructions")
NotifyIf(changed, inv) == IF changed THEN Append(inv, "Instructions") ELSE inv

\* line 213: the suppress-diagnostics directive
SuppressesDiagnostics_never(f) == FALSE
SuppressesDiagnostics(f) == hasSemanticsAttr(f, NO_MOVEONLY_DIAGNOSTICS)

\* lines 98, 114, 138, 238: madeChange |= ...
MergeChange_overwrites(acc, changed) == changed
MergeChange(acc, changed) == acc \/ changed

\* lines 226-227 swapped: the address class first, the object class never
NoDiagnosticsDirective_addressesFirst ==
    /\ pc = "directive_nodiag"
    /\ IF SuppressesDiagnostics(fn)
       THEN /\ fn' = [fn EXCEPT !.blocks = CleanupBlocks(fn.blocks)]
            /\ steps' = Append(steps, "cleanup")
            /\ invalidations' = NotifyIf(CleanupChanged(fn.blocks), invalidations)
            /\ Finish("suppressed")
       ELSE /\ pc' = "check_addresses"
            /\ UNCHANGED <<fn, steps, invalidations, terminal>>
    /\ UNCHANGED <<ctx, diags, madeChange, worklist, fn0, other>>

NoDiagnosticsDirective ==
    /\ pc = "directive_nodiag"
    /\ IF SuppressesDiagnostics(fn)
       THEN /\ fn' = [fn EXCEPT !.blocks = CleanupBlocks(fn.blocks)]
            /\ steps' = Append(steps, "cleanup")
            /\ invalidations' = NotifyIf(CleanupChanged(fn.blocks), invalidations)
            /\ Finish("suppressed")
       ELSE /\ pc' = "check_objects"
            /\ UNCHANGED <<fn, steps, invalidations, terminal>>
    /\ UNCHANGED <<ctx, diags, madeChange, worklist, fn0, other>>

\* lines 94-111 without the early return of lines 107-111
ObjectSearch_noEarlyReturn ==
    /\ pc = "check_objects"
    /\ fn' = [fn EXCEPT !.blocks = ObjSearchBlocks(fn.blocks)]
    /\ madeChange' = MergeChange(madeChange, ObjSearchChanged(fn.blocks))
    /\ diags' = diags \o ObjSearchDiags(fn.blocks)
    /\ steps' = Append(steps, "obj_search")
    /\ worklist' = ObjSearchWorklist(fn.blocks)
    /\ pc' = "object_checker"
    /\ UNCHANGED <<ctx, invalidations, terminal, fn0, other>>

\* lines 94-111: checkObjects up to the early return
ObjectSearch ==
    /\ pc = "check_objects"
    /\ fn' = [fn EXCEPT !.blocks = ObjSearchBlocks(fn.blocks)]
    /\ madeChange' = MergeChange(madeChange, ObjSearchChanged(fn.blocks))
    /\ diags' = diags \o ObjSearchDiags(fn.blocks)
    /\ steps' = Append(steps, "obj_search")
    /\ IF ObjSearchWorklist(fn.blocks) = <<>>
       THEN /\ worklist' = <<>>
            /\ pc' = "check_addresses"
       ELSE /\ worklist' = ObjSearchWorklist(fn.blocks)
            /\ pc' = "object_checker"
    /\ UNCHANGED <<ctx, invalidations, terminal, fn0, other>>

\* lines 113-114, but an object diagnostic ends checking
ObjectCheck_stopsOnError ==
    /\ pc = "object_checker"
    /\ fn' = [fn EXCEPT !.blocks = CheckerBlocks(fn.blocks, worklist, ObjRewrite, ObjOk)]
    /\ madeChange' = MergeChange(madeChange, CheckerChanged(fn.blocks, worklist, ObjRewrite, ObjOk))
    /\ diags' = diags \o CheckerDiags(fn.blocks, worklist, ObjIllegal)
    /\ steps' = Append(steps, "obj_check")
    /\ worklist' = <<>>
    /\ pc' = (IF CheckerDiags(fn.blocks, worklist, ObjIllegal) # <<>>
              THEN "cleanup" ELSE "check_addresses")
    /\ UNCHANGED <<ctx, invalidations, terminal, fn0, other>>

\* lines 113-114: the Object Checker on a non-empty worklist
ObjectCheck ==
    /\ pc = "object_checker"
    /\ fn' = [fn EXCEPT !.blocks = CheckerBlocks(fn.blocks, worklist, ObjRewrite, ObjOk)]
    /\ madeChange' = MergeChange(madeChange, CheckerChanged(fn.blocks, worklist, ObjRewrite, ObjOk))
    /\ diags' = diags \o CheckerDiags(fn.blocks, worklist, ObjIllegal)
    /\ steps' = Append(steps, "obj_check")
    /\ worklist' = <<>>
    /\ pc' = "check_addresses"
    /\ UNCHANGED <<ctx, invalidations, terminal, fn0, other>>

\* lines 117-134: checkAddresses up to the early return
AddressSearch ==
    /\ pc = "check_addresses"
    /\ diags' = diags \o AddrSearchDiags(fn.blocks)
    /\ steps' = Append(steps, "addr_search")
    /\ IF AddrSearchWorklist(fn.blocks) = <<>>
       THEN /\ worklist' = <<>>
            /\ pc' = "fallback"
       ELSE /\ worklist' = AddrSearchWorklist(fn.blocks)
            /\ pc' = "address_checker"
    /\ UNCHANGED <<fn, ctx, madeChange, invalidations, terminal, fn0, other>>

\* lines 136-138, but the engine gets an emitter of its own
AddressCheck_freshEmitter ==
    /\ pc = "address_checker"
    /\ fn' = [fn EXCEPT !.blocks = CheckerBlocks(fn.blocks, worklist, AddrRewrite, AddrOk)]
    /\ madeChange' = MergeChange(madeChange, CheckerChanged(fn.blocks, worklist, AddrRewrite, AddrOk))
    /\ diags' = CheckerDiags(fn.blocks, worklist, AddrIllegal)
    /\ steps' = Append(steps, "addr_check")
    /\ worklist' = <<>>
    /\ pc' = "fallback"
    /\ UNCHANGED <<ctx, invalidations, terminal, fn0, other>>

\* lines 136-138: the Address Checker on a non-empty worklist
AddressCheck ==
    /\ pc = "address_checker"
    /\ fn' = [fn EXCEPT !.blocks = CheckerBlocks(fn.blocks, worklist, AddrRewrite, AddrOk)]
    /\ madeChange' = MergeChange(madeChange, CheckerChanged(fn.blocks, worklist, AddrRewrite, AddrOk))
    /\ diags' = diags \o CheckerDiags(fn.blocks, worklist, AddrIllegal)
    /\ steps' = Append(steps, "addr_check")
    /\ worklist' = <<>>
    /\ pc' = "fallback"
    /\ UNCHANGED <<ctx, invalidations, terminal, fn0, other>>

\* lines 233-236: the missed-copy sweep when no diagnostic was emitted
RunsFallback_inverted(ds) == emittedDiagnostic(ds)
RunsFallback_always(ds) == TRUE
RunsFallback(ds) == ~emittedDiagnostic(ds)

Fallback ==
    /\ pc = "fallback"
    /\ IF RunsFallback(diags)
       THEN /\ diags' = diags \o MissedCopyDiags(fn.blocks)
            /\ steps' = Append(steps, "fallback")
       ELSE UNCHANGED <<diags, steps>>
    /\ pc' = "cleanup"
    /\ UNCHANGED <<fn, ctx, madeChange, worklist, invalidations, terminal, fn0, other>>

\* lines 238-239: cleanup, merged into madeChange
Cleanup_onlyAfterDiagnostic ==
    /\ pc = "cleanup"
    /\ IF emittedDiagnostic(diags)
       THEN /\ fn' = [fn EXCEPT !.blocks = CleanupBlocks(fn.blocks)]
            /\ madeChange' = MergeChange(madeChange, CleanupChanged(fn.blocks))
            /\ steps' = Append(steps, "cleanup")
       ELSE UNCHANGED <<fn, madeChange, steps>>
    /\ pc' = "exit"
    /\ UNCHANGED <<ctx, diags, worklist, invalidations, terminal, fn0, other>>

Cleanup ==
    /\ pc = "cleanup"
    /\ fn' = [fn EXCEPT !.blocks = CleanupBlocks(fn.blocks)]
    /\ madeChange' = MergeChange(madeChange, CleanupChanged(fn.blocks))
    /\ steps' = Append(steps, "cleanup")
    /\ pc' = "exit"
    /\ UNCHANGED <<ctx, diags, worklist, invalidations, terminal, fn0, other>>

\* lines 241-242: the host is told when something changed
Exit ==
    /\ pc = "exit"
    /\ invalidations' = NotifyIf(madeChange, invalidations)
    /\ Finish("checked")
    /\ UNCHANGED <<fn, ctx, diags, madeChange, worklist, steps, fn0, other>>

\* the pass manager runs the pass on the function again, any number of
\* times: a new MoveOnlyChecker, a new DiagnosticEmitter
Reinvoke ==
    /\ pc = "done"
    /\ pc' = "entry"
    /\ diags' = <<>>
    /\ madeChange' = FALSE
    /\ worklist' = <<>>
    /\ invalidations' = <<>>
    /\ steps' = <<>>
    /\ terminal' = "none"
    /\ fn0' = fn
    /\ UNCHANGED <<fn, ctx, other>>

Next ==
    \/ Gate
    \/ StageAssertFails
    \/ PassGate
    \/ DeleteDirective
    \/ EraseBlock
    \/ DeleteBody
    \/ NoDiagnosticsDirective
    \/ ObjectSearch
    \/ ObjectCheck
    \/ AddressSearch
    \/ AddressCheck
    \/ Fallback
    \/ Cleanup
    \/ Exit
    \/ Reinvoke

Spec == Init /\ [][Next]_vars

TypeOK ==
    /\ fn.linkage \in Linkages
    /\ fn.refCount \in 0..MaxRefCount
    /\ fn.attrs \subseteq Attrs
    /\ madeChange \in BOOLEAN
    /\ Len(fn.blocks) >= 1

(* ======================= properties ======================= *)
Count(seq, x) == Cardinality({i \in 1..Len(seq) : seq[i] = x})
Ran(x) == Count(steps, x) > 0
CheckingSteps == {"obj_search", "obj_check", "addr_search", "addr_check", "fallback"}
RanNoChecking == \A i \in 1..Len(steps) : steps[i] \notin CheckingSteps

\* the invocation ended and was not stopped by the entry gate or the assertion
PassedGateAndEnded ==
    /\ pc = "done"
    /\ ctx.moveOnly
    /\ ~fn0.deserialized

\* the function, as the invocation found it, is unused
UnusedAtEntry ==
    /\ fn0.refCount = 0
    /\ ~(fn0.linkage = "Public" \/ (fn0.linkage = "Hidden" /\ ~ctx.wholeModule))

DeletedAtEntry == MOVEONLY_DELETE_IF_UNUSED \in fn0.attrs /\ UnusedAtEntry
SuppressedAtEntry == NO_MOVEONLY_DIAGNOSTICS \in fn0.attrs

\* `after` is `before` with every implicit copy in its explicit form
RewrittenExplicit(before, after) ==
    /\ Len(after) = Len(before)
    /\ \A b \in 1..Len(before) :
        /\ after[b].id = before[b].id
        /\ Len(after[b].insts) = Len(before[b].insts)
        /\ \A i \in 1..Len(before[b].insts) :
            after[b].insts[i] =
                IF before[b].insts[i] = Copy THEN ExplicitCopy ELSE before[b].insts[i]

\* C1: in normal checking, an implicit copy of a move-only value that is
\* still in the body when both classes have been checked has a diagnostic:
\* once the fallback decision is taken the emitter is not empty, and the
\* invocation ends with at least one diagnostic.
C1_NoSilentDuplication ==
    /\ (pc = "cleanup" /\ HasImplicitCopy(fn.blocks)) => getDiagnosticCount(diags) >= 1
    /\ (terminal = "checked" /\ HasImplicitCopy(fn0.blocks)) => getDiagnosticCount(diags) >= 1

\* C1 witness: a copy, both worklists empty, no engine ran, a diagnostic
C1_Witness ==
    /\ terminal = "checked"
    /\ HasImplicitCopy(fn0.blocks)
    /\ ~Ran("obj_check") /\ ~Ran("addr_check")
    /\ Len(diags) >= 1

\* C2: with the move-only feature disabled an invocation records no
\* diagnostic, leaves the function as it was, runs no step and sends no
\* invalidation; it ends as gated.
C2_FeatureDisabledNoOp ==
    ~ctx.moveOnly =>
        /\ pc \in {"entry", "done"}
        /\ terminal \in {"none", "gated"}
        /\ diags = <<>>
        /\ fn = fn0
        /\ steps = <<>>
        /\ invalidations = <<>>
        /\ madeChange = FALSE

\* C2 witness: a gated invocation on a function with a copy, a directive
\* and no reference, that is not deserialized
C2_Witness ==
    /\ ~ctx.moveOnly
    /\ terminal = "gated"
    /\ ~fn.deserialized
    /\ fn.attrs = Attrs
    /\ fn.refCount = 0
    /\ HasImplicitCopy(fn.blocks)

\* C3: on a deserialized function every invocation is a no-op, whatever
\* directives it carries.
C3_DeserializedNoOp ==
    fn0.deserialized =>
        /\ pc \in {"entry", "done"}
        /\ terminal \in {"none", "gated"}
        /\ diags = <<>>
        /\ fn = fn0
        /\ steps = <<>>
        /\ invalidations = <<>>

\* C3 witness: feature on, deserialized, both directives, unused, a copy
C3_Witness ==
    /\ ctx.moveOnly
    /\ fn0.deserialized
    /\ terminal = "gated"
    /\ fn.attrs = Attrs
    /\ fn.refCount = 0 /\ fn.linkage = "Shared"
    /\ HasImplicitCopy(fn.blocks)

\* C4: a function past the gate with delete-if-unused that is unused ends
\* with one block, its former entry block, holding one unreachable.
C4_DeletedBodyShape ==
    (PassedGateAndEnded /\ DeletedAtEntry) =>
        /\ Len(fn.blocks) = 1
        /\ fn.blocks[1].id = fn0.blocks[1].id
        /\ fn.blocks[1].insts = <<Unreachable>>

\* C4 witness: a deleted function that had several blocks and instructions
C4_Witness ==
    /\ PassedGateAndEnded /\ DeletedAtEntry
    /\ terminal = "deleted"
    /\ Len(fn0.blocks) >= 2
    /\ Len(fn0.blocks[1].insts) >= 3

\* C5: the deleted-unused path ends with exactly one function-body
\* invalidation and has run no search, engine, fallback or cleanup and
\* recorded no diagnostic.
C5_DeletedPathReportsAndStops ==
    (PassedGateAndEnded /\ DeletedAtEntry) =>
        /\ terminal = "deleted"
        /\ invalidations = <<"FunctionBody">>
        /\ RanNoChecking /\ ~Ran("cleanup")
        /\ diags = <<>>

\* C5 witness: the deleted function also carried suppress-diagnostics and a copy
C5_Witness ==
    /\ PassedGateAndEnded /\ DeletedAtEntry
    /\ SuppressedAtEntry
    /\ HasImplicitCopy(fn0.blocks)
    /\ invalidations = <<"FunctionBody">>

\* the function carries delete-if-unused but is still used
LiveDespiteDirective ==
    MOVEONLY_DELETE_IF_UNUSED \in fn0.attrs /\ ~UnusedAtEntry /\ ctx.moveOnly /\ ~fn0.deserialized

C7_SuppressedCleansSilently ==
    (PassedGateAndEnded /\ ~DeletedAtEntry /\ SuppressedAtEntry) =>
        /\ terminal = "suppressed"
        /\ diags = <<>>
        /\ RanNoChecking
        /\ Count(steps, "cleanup") = 1
        /\ ~HasImplicitCopy(fn.blocks)
        /\ RewrittenExplicit(fn0.blocks, fn.blocks)

\* C7 witness: a suppressed function that had an implicit copy and a marker
\* an engine would have flagged
C7_Witness ==
    /\ terminal = "suppressed"
    /\ HasImplicitCopy(fn0.blocks)
    /\ \E i \in 1..Len(fn0.blocks[1].insts) : fn0.blocks[1].insts[i] \in {ObjIllegal, AddrIllegal}
    /\ ~HasImplicitCopy(fn.blocks)

\* C8: normal checking runs cleanup exactly once, as its last step, after
\* both searches and the fallback decision, with or without diagnostics;
\* no implicit copy remains.
C8_CleanupAlwaysRuns ==
    /\ pc = "exit" =>
        /\ Count(steps, "cleanup") = 1
        /\ steps[Len(steps)] = "cleanup"
    /\ terminal = "checked" =>
        /\ Count(steps, "cleanup") = 1
        /\ steps[Len(steps)] = "cleanup"
        /\ Ran("obj_search") /\ Ran("addr_search")
        /\ ~HasImplicitCopy(fn.blocks)
    /\ pc \in {"check_objects", "object_checker", "check_addresses", "address_checker",
               "fallback", "cleanup"} => ~Ran("cleanup")

\* C8 witness: an engine's diagnostic kept the fallback from running and
\* the copy was still rewritten
C8_Witness ==
    /\ terminal = "checked"
    /\ Len(diags) >= 1
    /\ ~Ran("fallback")
    /\ HasImplicitCopy(fn0.blocks)
    /\ ~HasImplicitCopy(fn.blocks)

\* C9: normal checking ends with one Instructions invalidation exactly when
\* madeChange is set, and madeChange is set exactly when a step changed the
\* body.
C9_InvalidationIffChanged ==
    terminal = "checked" =>
        /\ invalidations = (IF madeChange THEN <<"Instructions">> ELSE <<>>)
        /\ madeChange <=> (fn.blocks # fn0.blocks)
        /\ fn.linkage = fn0.linkage

\* C9 witness: the body changed before cleanup and cleanup changed nothing
C9_Witness ==
    /\ terminal = "checked"
    /\ invalidations = <<"Instructions">>
    /\ ~HasImplicitCopy(fn0.blocks)
    /\ fn.blocks # fn0.blocks

\* C10: the suppressed path sends one Instructions invalidation exactly
\* when cleanup changed the body, and none otherwise.
C10_SuppressedInvalidationIffCleaned ==
    terminal = "suppressed" =>
        invalidations = (IF fn.blocks # fn0.blocks THEN <<"Instructions">> ELSE <<>>)

\* C10 witness: cleanup had nothing to rewrite in a body with markers and
\* the host was not notified
C10_Witness ==
    /\ terminal = "suppressed"
    /\ fn.blocks = fn0.blocks
    /\ Len(fn0.blocks[1].insts) >= 2
    /\ invalidations = <<>>

\* C11: on the deleted-unused path shared linkage ends as private and any
\* other linkage is kept; everywhere else, and while the deletion is still
\* under way, the linkage is the one the invocation found.
C11_LinkageOnlyDowngradedOnDelete ==
    fn.linkage =
        IF PassedGateAndEnded /\ DeletedAtEntry /\ fn0.linkage = "Shared"
        THEN "Private"
        ELSE fn0.linkage

\* C11 witness: a deleted function whose shared linkage became private
C11_Witness ==
    /\ terminal = "deleted"
    /\ fn0.linkage = "Shared"
    /\ fn.linkage = "Private"
    /\ Len(fn0.blocks) >= 2

\* diagnostics by origin: the engines report illegal uses, the searches
\* unanalyzable markers, the fallback sweep missed copies
Recorded(msg) == \E i \in 1..Len(diags) : diags[i].msg = msg
EngineDiagnosed == Recorded("illegal_use")
SearchDiagnosed == Recorded("unanalyzable_marker")

\* C13 as stated: in normal checking the fallback sweep runs whenever
\* neither engine emitted a diagnostic, whatever the searches emitted.
C13_Original ==
    (terminal = "checked" /\ ~EngineDiagnosed) => Ran("fallback")

\* C13 amended: the fallback sweep runs exactly when the emitter holds no
\* diagnostic at all once both classes are finished; a diagnostic recorded
\* by a candidate search keeps the sweep from running just as an engine's
\* does.  It changes no other step: the address search and cleanup still
\* run.
C13_FallbackIffEmitterEmpty ==
    /\ pc \in {"cleanup", "exit"} =>
        (Ran("fallback") <=> (~EngineDiagnosed /\ ~SearchDiagnosed))
    /\ terminal = "checked" =>
        /\ Ran("fallback") <=> (~EngineDiagnosed /\ ~SearchDiagnosed)
        /\ Ran("addr_search")
        /\ Ran("cleanup")

\* C13 witness: only a search recorded a diagnostic, the sweep did not run
\* and the implicit copy in the body got no diagnostic of its own
C13_Witness ==
    /\ terminal = "checked"
    /\ SearchDiagnosed /\ ~EngineDiagnosed
    /\ ~Ran("fallback")
    /\ HasImplicitCopy(fn0.blocks)
    /\ ~Recorded("missed_copy")

\* nothing has been recorded, changed, run or sent by this invocation
Untouched ==
    /\ diags = <<>>
    /\ fn = fn0
    /\ steps = <<>>
    /\ invalidations = <<>>
    /\ madeChange = FALSE

\* C14 as stated: an invocation on a function whose stage is not Raw never
\* gets anywhere but the fatal failure.
C14_Original ==
    ctx.stage # "Raw" => pc \in {"entry", "aborted"}

\* C14 amended: the stage is tested after the two early returns and only
\* by an assertion.  The fatal failure happens only when the stage is not
\* Raw and the function passed both early returns, and then nothing was
\* recorded, changed, run or sent; a function the gate skips returns as a
\* no-op whatever the stage.
C14_StageFailureIsFatalAndClean ==
    /\ terminal = "aborted" =>
        /\ pc = "aborted"
        /\ ctx.stage # "Raw"
        /\ ctx.moveOnly /\ ~fn0.deserialized
        /\ Untouched
    /\ (ctx.stage # "Raw" /\ (~ctx.moveOnly \/ fn0.deserialized)) =>
        /\ terminal \in {"none", "gated"}
        /\ Untouched

\* C14 witness: the assertion stopped a function with both directives, no
\* reference and an implicit copy
C14_Witness ==
    /\ terminal = "aborted"
    /\ ctx.stage = "Canonical"
    /\ fn.attrs = Attrs
    /\ fn.refCount = 0 /\ fn.linkage = "Shared"
    /\ HasImplicitCopy(fn.blocks)

\* the order of the steps of normal checking
CheckedOrder == <<"obj_search", "obj_check", "addr_search", "addr_check", "fallback", "cleanup">>
OrderIndex(s) == CHOOSE k \in 1..Len(CheckedOrder) : CheckedOrder[k] = s
InCheckedOrder ==
    /\ \A i \in 1..Len(steps) : \E k \in 1..Len(CheckedOrder) : CheckedOrder[k] = steps[i]
    /\ \A i, j \in 1..Len(steps) : i < j => OrderIndex(steps[i]) < OrderIndex(steps[j])
NormalCheckingPcs ==
    {"check_objects", "object_checker", "check_addresses", "address_checker",
     "fallback", "cleanup", "exit"}

\* C15: in normal checking the steps run in the order object search,
\* Object Checker, address search, Address Checker, fallback, cleanup,
\* invalidation, each at most once; the object class is finished before an
\* address step starts, the fallback decision is taken after both searches
\* with no worklist pending, and the host is notified only at the end.
C15_FixedStepOrder ==
    /\ (pc \in NormalCheckingPcs \/ terminal = "checked") =>
        /\ InCheckedOrder
        /\ (pc \in NormalCheckingPcs => invalidations = <<>>)
    /\ pc = "object_checker" => (steps = <<"obj_search">> /\ worklist # <<>>)
    /\ pc = "check_addresses" =>
        (steps \in {<<"obj_search">>, <<"obj_search", "obj_check">>} /\ worklist = <<>>)
    /\ pc = "address_checker" => (Ran("obj_search") /\ Ran("addr_search") /\ ~Ran("fallback"))
    /\ pc = "fallback" => (Ran("obj_search") /\ Ran("addr_search") /\ worklist = <<>>)
    /\ pc = "cleanup" => (Ran("obj_search") /\ Ran("addr_search") /\ ~Ran("cleanup"))
    /\ terminal = "checked" =>
        (steps[1] = "obj_search" /\ Ran("addr_search") /\ steps[Len(steps)] = "cleanup")

\* C15 witness: all six steps ran, in order, and the host was notified
C15_Witness ==
    /\ terminal = "checked"
    /\ steps = CheckedOrder
    /\ invalidations = <<"Instructions">>

\* the worklists the searches produce for the function the invocation found
ObjWorklistEmpty == ObjSearchWorklist(fn0.blocks) = <<>>
AddrWorklistEmpty == AddrSearchWorklist(fn0.blocks) = <<>>

\* C16: in normal checking each engine runs exactly once when its class's
\* worklist is not empty and never when it is empty; an engine is only
\* entered with a non-empty worklist; a class with an empty worklist adds
\* no engine diagnostic, and the other class, the fallback decision and
\* cleanup still run.
C16_EngineRunsIffWorklist ==
    /\ pc = "object_checker" => worklist # <<>>
    /\ pc = "address_checker" => worklist # <<>>
    /\ (pc = "check_addresses" /\ ~Ran("obj_check")) => ~EngineDiagnosed
    /\ terminal = "checked" =>
        /\ Count(steps, "obj_search") = 1
        /\ Count(steps, "addr_search") = 1
        /\ Count(steps, "obj_check") = (IF ObjWorklistEmpty THEN 0 ELSE 1)
        /\ Count(steps, "addr_check") = (IF AddrWorklistEmpty THEN 0 ELSE 1)
        /\ (ObjWorklistEmpty /\ AddrWorklistEmpty) => ~EngineDiagnosed
        /\ Count(steps, "cleanup") = 1

\* C16 witness: the object worklist was empty although the search saw a
\* marker, the Object Checker was skipped and the Address Checker ran
C16_Witness ==
    /\ terminal = "checked"
    /\ ObjWorklistEmpty /\ ~AddrWorklistEmpty
    /\ \E i \in 1..Len(fn0.blocks[1].insts) : fn0.blocks[1].insts[i] \in {ObjMalformed, ObjTrivial}
    /\ ~Ran("obj_check")
    /\ Ran("addr_check")

\* number of instructions of a kind in a body, of diagnostics of a message
NumKind(blocks, k) == Count(Flatten(blocks), k)
NumDiags(msg) == Cardinality({i \in 1..Len(diags) : diags[i].msg = msg})

\* C17: once the object class is finished the address class is searched,
\* and checked when its worklist is not empty, whether or not the Object
\* Checker ran and whatever diagnostics the object class recorded; every
\* illegal use of either class is reported and cleanup still runs.
C17_AddressClassIndependent ==
    /\ (pc \in {"address_checker", "fallback", "cleanup", "exit"} \/ terminal = "checked") =>
        Count(steps, "addr_search") = 1
    /\ (pc \in {"fallback", "cleanup", "exit"} \/ terminal = "checked") =>
        /\ Ran("addr_check") <=> ~AddrWorklistEmpty
        /\ NumDiags("illegal_use") =
              NumKind(fn0.blocks, ObjIllegal) + NumKind(fn0.blocks, AddrIllegal)
    /\ terminal = "checked" => (Ran("cleanup") /\ ~HasImplicitCopy(fn.blocks))

\* C17 witness: the Object Checker reported an illegal use and the Address
\* Checker then ran and reported its own
C17_Witness ==
    /\ terminal = "checked"
    /\ NumKind(fn0.blocks, ObjIllegal) = 1
    /\ NumKind(fn0.blocks, AddrIllegal) = 1
    /\ steps = <<"obj_search", "obj_check", "addr_search", "addr_check", "cleanup">>
    /\ Len(diags) = 2

(* ---- termination ---- *)
\* the steps of one invocation: everything but the host's re-invocation
RunStep ==
    \/ Gate
    \/ StageAssertFails
    \/ PassGate
    \/ DeleteDirective
    \/ EraseBlock
    \/ DeleteBody
    \/ NoDiagnosticsDirective
    \/ ObjectSearch
    \/ ObjectCheck
    \/ AddressSearch
    \/ AddressCheck
    \/ Fallback
    \/ Cleanup
    \/ Exit

\* the positions of run() in program order; a step moves forward in it,
\* except the erasing loop, which stays and removes a block
PcOrder ==
    <<"entry", "directive_delete", "erase_blocks", "directive_nodiag", "check_objects",
      "object_checker", "check_addresses", "address_checker", "fallback", "cleanup",
      "exit", "done", "aborted">>
PcIndex(p) == CHOOSE k \in 1..Len(PcOrder) : PcOrder[k] = p
Progress ==
    \/ PcIndex(pc') > PcIndex(pc)
    \/ /\ pc = "erase_blocks"
       /\ pc' = pc
       /\ Len(fn'.blocks) < Len(fn.blocks)

Ended == pc \in {"done", "aborted"}
FourTerminalStates == {"gated", "deleted", "suppressed", "checked"}

\* C18 as stated: an invocation that has ended is in one of the four
\* terminal states.
C18_Original ==
    Ended => terminal \in FourTerminalStates

\* C18 amended: every invocation ends, in exactly one of the four terminal
\* states or, when the stage is not Raw, in the failed assertion.  Until it
\* has ended it is in none of them and can always take a step that changes
\* the state; every step moves forward in program order or, in the erasing
\* loop, removes a block, so no position is entered twice and the loop ends
\* after as many iterations as there are non-entry blocks; no step is
\* logged twice.
C18_TerminatesOnce ==
    /\ [](Ended <=> terminal \in FourTerminalStates \cup {"aborted"})
    /\ [](terminal = "aborted" => ctx.stage # "Raw")
    /\ [](\A i, j \in 1..Len(steps) : steps[i] = steps[j] => i = j)
    /\ [](~Ended => ENABLED <<RunStep>>_vars)
    /\ [][pc # "done" => Progress]_vars

\* C18 witness: the deletion path ended after the loop erased a block
C18_Witness ==
    /\ terminal = "deleted"
    /\ Len(fn0.blocks) >= 2
    /\ Len(fn.blocks) = 1

\* what the searches and the engines record for the function the
\* invocation found
NumBeforeFallback ==
    NumKind(fn0.blocks, ObjMalformed) + NumKind(fn0.blocks, AddrMalformed)
    + NumKind(fn0.blocks, ObjIllegal) + NumKind(fn0.blocks, AddrIllegal)

\* C20: an invocation's emitter starts empty; no step of the invocation
\* removes or replaces a recorded diagnostic, so the count never
\* decreases; at the fallback decision every diagnostic of the searches and
\* the engines is counted.
C20_DiagnosticsOnlyGrow ==
    /\ [](pc = "entry" => getDiagnosticCount(diags) = 0)
    /\ [][pc # "done" =>
            /\ getDiagnosticCount(diags') >= getDiagnosticCount(diags)
            /\ SubSeq(diags', 1, Len(diags)) = diags]_vars
    /\ [](pc = "fallback" => getDiagnosticCount(diags) = NumBeforeFallback)

\* C20 witness: at the fallback decision the emitter holds a diagnostic of
\* the object search and one of the Address Checker
C20_Witness ==
    /\ pc = "fallback"
    /\ NumKind(fn0.blocks, ObjMalformed) = 1
    /\ NumKind(fn0.blocks, AddrIllegal) = 1
    /\ Len(diags) = 2
    /\ diags[1].msg = "unanalyzable_marker"
    /\ diags[2].msg = "illegal_use"

(* ======================= two workers ======================= *)
\* The host may run the pass on independent functions in parallel.  The
\* state of an invocation is the function it was given and what run() keeps
\* in locals: the MoveOnlyChecker of lines 222-224 with its emitter, its
\* change flag (lines 75-90) and its worklist (lines 95, 118).  The context
\* is the one thing two invocations have in common, and run() only reads it.
MaxPairInstrs == 1

InvocationState ==
    [fn |-> fn, pc |-> pc, diags |-> diags, madeChange |-> madeChange,
     worklist |-> worklist, invalidations |-> invalidations, steps |-> steps,
     terminal |-> terminal, fn0 |-> fn0]

NewInvocation(f) ==
    [fn |-> f, pc |-> "entry", diags |-> <<>>, madeChange |-> FALSE,
     worklist |-> <<>>, invalidations |-> <<>>, steps |-> <<>>,
     terminal |-> "none", fn0 |-> f]

\* the scheduler lets the second worker take the next steps, but an emitter
\* lives across invocations: the diagnostics recorded so far stay visible
Switch_sharedEmitter ==
    /\ other.pc # "absent"
    /\ pc # "aborted"
    /\ other' = InvocationState
    /\ fn' = other.fn
    /\ pc' = other.pc
    /\ diags' = diags
    /\ madeChange' = other.madeChange
    /\ worklist' = other.worklist
    /\ invalidations' = other.invalidations
    /\ steps' = other.steps
    /\ terminal' = other.terminal
    /\ fn0' = other.fn0
    /\ UNCHANGED ctx

\* the scheduler lets the second worker take the next steps; a failed
\* assertion ends the whole compilation, so nothing runs after it
Switch ==
    /\ other.pc # "absent"
    /\ pc # "aborted"
    /\ other' = InvocationState
    /\ fn' = other.fn
    /\ pc' = other.pc
    /\ diags' = other.diags
    /\ madeChange' = other.madeChange
    /\ worklist' = other.worklist
    /\ invalidations' = other.invalidations
    /\ steps' = other.steps
    /\ terminal' = other.terminal
    /\ fn0' = other.fn0
    /\ UNCHANGED ctx

\* the functions of the first worker: shared linkage, no references, up to
\* MaxPairInstrs instructions before the return
PairBodies ==
    {<<[id |-> 1, insts |-> s \o <<Return>>]>>
        \o [k \in 1..n |-> [id |-> k + 1, insts |-> <<Unreachable>>]] :
        s \in SeqsUpTo(InputKinds, MaxPairInstrs), n \in 0..(MaxBlocks - 1)}
PairFunctions ==
    [blocks : PairBodies, linkage : {"Shared"}, refCount : {0},
     attrs : SUBSET Attrs, deserialized : {FALSE}]

\* the functions of the second worker: one records an engine diagnostic,
\* one has an implicit copy for the sweep and for cleanup, one is changed
\* by the Object Checker and records nothing
DisturberEntries == {<<ObjIllegal>>, <<Copy>>, <<ObjRewrite>>}
Disturbers ==
    {[blocks |-> <<[id |-> 1, insts |-> s \o <<Return>>]>>, linkage |-> "Shared",
      refCount |-> 0, attrs |-> {}, deserialized |-> FALSE] : s \in DisturberEntries}

PairInit ==
    /\ fn \in PairFunctions
    /\ ctx \in Contexts
    /\ pc = "entry"
    /\ diags = <<>>
    /\ madeChange = FALSE
    /\ worklist = <<>>
    /\ invalidations = <<>>
    /\ steps = <<>>
    /\ terminal = "none"
    /\ fn0 = fn
    /\ \E g \in Disturbers : other = NewInvocation(g)

PairNext ==
    \/ RunStep
    \/ Switch

PairSpec == PairInit /\ [][PairNext]_vars

\* what one invocation leaves behind when no other invocation runs: run()
\* read from top to bottom as one function of the body and the context
AloneObjects(blocks) ==
    LET searched == ObjSearchBlocks(blocks)
        wl == ObjSearchWorklist(blocks)
    IN  IF wl = <<>>
        THEN [blocks |-> searched, diags |-> ObjSearchDiags(blocks),
              changed |-> ObjSearchChanged(blocks)]
        ELSE [blocks |-> CheckerBlocks(searched, wl, ObjRewrite, ObjOk),
              diags |-> ObjSearchDiags(blocks) \o CheckerDiags(searched, wl, ObjIllegal),
              changed |-> MergeChange(ObjSearchChanged(blocks),
                                      CheckerChanged(searched, wl, ObjRewrite, ObjOk))]

AloneAddresses(blocks) ==
    LET wl == AddrSearchWorklist(blocks)
    IN  IF wl = <<>>
        THEN [blocks |-> blocks, diags |-> AddrSearchDiags(blocks), changed |-> FALSE]
        ELSE [blocks |-> CheckerBlocks(blocks, wl, AddrRewrite, AddrOk),
              diags |-> AddrSearchDiags(blocks) \o CheckerDiags(blocks, wl, AddrIllegal),
              changed |-> CheckerChanged(blocks, wl, AddrRewrite, AddrOk)]

AloneChecked(f) ==
    LET objs == AloneObjects(f.blocks)
        addrs == AloneAddresses(objs.blocks)
        found == objs.diags \o addrs.diags
        changed == MergeChange(MergeChange(objs.changed, addrs.changed),
                               CleanupChanged(addrs.blocks))
    IN  [terminal |-> "checked",
         fn |-> [f EXCEPT !.blocks = CleanupBlocks(addrs.blocks)],
         diags |-> IF RunsFallback(found) THEN MissedCopyDiags(addrs.blocks) ELSE found,
         ranFallback |-> RunsFallback(found),
         madeChange |-> changed,
         invalidations |-> NotifyIf(changed, <<>>)]

RunAlone(f, c) ==
    IF GateSkips(c, f)
    THEN [terminal |-> "gated", fn |-> f, diags |-> <<>>, ranFallback |-> FALSE,
          madeChange |-> FALSE, invalidations |-> <<>>]
    ELSE IF TakesDeletePath(f, c)
    THEN [terminal |-> "deleted",
          fn |-> [f EXCEPT !.blocks = RewriteEntryBlock(<<Head(f.blocks)>>),
                           !.linkage = DowngradeLinkage(f.linkage)],
          diags |-> <<>>, ranFallback |-> FALSE, madeChange |-> FALSE,
          invalidations |-> InvalidateFunctionBody(<<>>)]
    ELSE IF SuppressesDiagnostics(f)
    THEN [terminal |-> "suppressed",
          fn |-> [f EXCEPT !.blocks = CleanupBlocks(f.blocks)],
          diags |-> <<>>, ranFallback |-> FALSE, madeChange |-> FALSE,
          invalidations |-> NotifyIf(CleanupChanged(f.blocks), <<>>)]
    ELSE AloneChecked(f)

\* what an invocation in state s has left behind
Outcome(s) ==
    [terminal |-> s.terminal, fn |-> s.fn, diags |-> s.diags,
     ranFallback |-> Count(s.steps, "fallback") > 0,
     madeChange |-> s.madeChange, invalidations |-> s.invalidations]

\* the diagnostics the searches and the engines record for a function
FoundAlone(f) ==
    AloneObjects(f.blocks).diags \o AloneAddresses(AloneObjects(f.blocks).blocks).diags

Isolated(s) ==
    /\ s.pc = "entry" => s.diags = <<>> /\ ~s.madeChange /\ s.fn = s.fn0
    /\ s.pc = "fallback" => s.diags = FoundAlone(s.fn0)
    /\ s.pc = "done" => Outcome(s) = RunAlone(s.fn0, ctx)

\* C19: with the invocations on two functions interleaved in any order,
\* each invocation starts with an empty emitter and a clear change flag,
\* reads at the fallback decision exactly the diagnostics the searches and
\* engines record for its own function, and ends with the terminal state,
\* body, linkage, diagnostics, fallback decision, change flag and
\* notifications it has when it runs alone.
C19_InterleavedAsAlone ==
    /\ Isolated(InvocationState)
    /\ Isolated(other)

\* both invocations are in progress, the second worker's function has a
\* diagnostic on record, and the first worker's function, which has an
\* implicit copy and nothing else to report, is at the fallback decision
\* with an empty emitter
C19_Witness ==
    /\ pc = "fallback"
    /\ HasImplicitCopy(fn0.blocks)
    /\ diags = <<>>
    /\ other.pc = "cleanup"
    /\ other.fn0 # fn0
    /\ Len(other.diags) = 1
    /\ other.diags[1].msg = "illegal_use"

====
